---- MODULE Spec2Model ----
(***************************************************************************)
(* Incident (emergency SOS), complaint and OTP stores of the Nagrik         *)
(* Suraksha backend, with the bearer-token gate of the /admin routes and   *)
(* the OTP login of citizens.                                              *)
(*                                                                         *)
(* Every request is served by a handler; a handler yields at each await on *)
(* the database, so the statements of two handlers interleave at statement *)
(* granularity (Database.run/get/all resolve one statement each and open   *)
(* no transaction).                                                        *)
(***************************************************************************)
EXTENDS Integers, Sequences, FiniteSets, TLC

VARIABLES
    emergency_sos,          \* rows of table emergency_sos
    emergency_sos_history,  \* rows of table emergency_sos_history, in id order
    complaints,             \* rows of table complaints, in id order
    hs,                     \* per handler: position and locals of the request it serves
    now,                    \* CURRENT_TIMESTAMP
    removed,                \* number of active rows deleted by resolveEmergencySOS
    otp_storage,            \* rows of table otp_storage
    sqlite_sequence,        \* the AUTOINCREMENT counter of otp_storage
    issued,                 \* per otp_storage id: tokens POST /login has issued on it
    mismatched,             \* per otp_storage id: candidates POST /login has found unequal to it
    users,                  \* rows of table users
    envelopes,              \* the calls of encryptUserData made so far, each with what a decryptUserData of its result returned
    randomDrawn             \* number of buffers crypto.randomBytes has returned

storeVars == <<emergency_sos, emergency_sos_history, complaints, removed>>
otpVars == <<otp_storage, sqlite_sequence, issued, mismatched>>
cryptoVars == <<envelopes, randomDrawn>>
vars == <<emergency_sos, emergency_sos_history, complaints, hs, now, removed,
          otp_storage, sqlite_sequence, issued, mismatched, users, envelopes, randomDrawn>>

\* ---------------------------------------------------------------- bounds
Handlers == {"h1", "h2"}
MaxTime == 1
MaxHistory == 2
MaxComplaints == 1
MaxOtps == 2
MaxClock == 6
MaxEnvelopes == 2

\* ---------------------------------------------------------------- values
NULL == <<>>

\* RSA key material: pem says the text is a PEM block, pair names the key pair
NoKey == [pem |-> FALSE, pair |-> 0]

\* insertTestUsers: both seeded users get the one generated key pair
testUsers ==
    { [id |-> 1, phone_number |-> "+1234567890", is_verified |-> TRUE,
       public_key |-> [pem |-> TRUE, pair |-> 1], private_key |-> [pem |-> TRUE, pair |-> 1]],
      [id |-> 2, phone_number |-> "+9876543210", is_verified |-> TRUE,
       public_key |-> [pem |-> TRUE, pair |-> 1], private_key |-> [pem |-> TRUE, pair |-> 1]] }

\* insertDefaultPoliceOfficers
police_officers ==
    { [id |-> 1, username |-> "police.admin",    password |-> "police123",     name |-> "Police Administrator",    role |-> "admin"],
      [id |-> 2, username |-> "officer.john",    password |-> "officer123",    name |-> "Officer John Smith",      role |-> "officer"],
      [id |-> 3, username |-> "supervisor.mary", password |-> "supervisor123", name |-> "Supervisor Mary Johnson", role |-> "supervisor"],
      [id |-> 4, username |-> "BV Anish",        password |-> "ghost",         name |-> "BV Anish",                role |-> "admin"] }

\* ---------------------------------------------------------------- tokens
\* What a request can put in its Authorization header.  sig is "none" when
\* there is no Bearer header, "bad" when jwt.verify throws (wrong signature,
\* malformed, expired), "ok" when jwt.verify returns the payload.
NoToken  == [sig |-> "none", type |-> "", role |-> "", userId |-> 0]
BadToken == [sig |-> "bad",  type |-> "admin", role |-> "admin", userId |-> 1]

\* POST /login: the citizen payload has neither type nor role
CitizenToken(u) == [sig |-> "ok", type |-> "", role |-> "", userId |-> u.id]

\* policeService.authenticatePolice
authenticatePolice(username, password) ==
    { o \in police_officers : o.username = username /\ o.password = password }

\* POST /admin/login: jwt.sign({userId, username, role: policeData.role, type: 'admin'})
AdminLoginToken(username, password) ==
    { [sig |-> "ok", type |-> "admin", role |-> o.role, userId |-> o.id] :
          o \in authenticatePolice(username, password) }

\* The tokens of the three seeded accounts, one per role
PoliceTokens ==
    AdminLoginToken("police.admin", "police123")
        \cup AdminLoginToken("officer.john", "officer123")
        \cup AdminLoginToken("supervisor.mary", "supervisor123")

CitizenTokens == { CitizenToken(u) : u \in { x \in testUsers : x.phone_number = "+1234567890" } }

Credentials == {NoToken, BadToken} \cup CitizenTokens \cup PoliceTokens

\* jwt.verify(token, JWT_SECRET) returns instead of throwing
ValidToken(tok) == tok.sig = "ok"

\* The gate without its type check: any token jwt.verify accepts passes
AdminGateAnyValidToken(tok) ==
    IF tok.sig = "none" THEN 401
    ELSE IF tok.sig = "bad" THEN 401
    ELSE 200

\* The guard each gated /admin route repeats: 401 without a Bearer header,
\* 401 when jwt.verify throws, 403 when decoded.type !== 'admin'.
AdminGate(tok) ==
    IF tok.sig = "none" THEN 401
    ELSE IF tok.sig = "bad" THEN 401
    ELSE IF tok.type # "admin" THEN 403
    ELSE 200

\* policeService.getPoliceById(decoded.userId) ; policeData ? policeData.name : 'Unknown Officer'
ResolvedByOf(tok) ==
    LET found == { o \in police_officers : o.id = tok.userId }
    IN  IF found = {} THEN "Unknown Officer" ELSE (CHOOSE o \in found : TRUE).name

\* ---------------------------------------------------------------- crypto
\* encryptUserData(plaintext, publicKey): throws on an empty plaintext, a
\* missing key, a key that is not a PEM public key, or a failure of the
\* crypto library (libFail); otherwise returns the three artifacts together.
encryptUserData(plaintext, publicKey, libFail) ==
    IF plaintext = "" \/ publicKey = NoKey \/ ~publicKey.pem \/ libFail
    THEN [threw |-> TRUE,  encryptedData |-> NULL, encryptedKey |-> NULL, iv |-> NULL]
    ELSE [threw |-> FALSE,
          encryptedData |-> <<"aes-256-cbc", plaintext>>,
          encryptedKey  |-> <<"rsa-oaep", publicKey.pair>>,
          iv            |-> <<"iv">>]

\* The text a ciphertext was made from
PlaintextOf(encryptedData) == encryptedData[2]

\* decryptUserData(encryptedData, encryptedKey, iv, privateKey): throws when a
\* component or the private key is missing, or when the private key is not the
\* one of the pair that wrapped the AES key; otherwise returns the plaintext.
decryptUserData(encryptedData, encryptedKey, iv, privateKey) ==
    IF encryptedData = NULL \/ encryptedKey = NULL \/ iv = NULL
           \/ privateKey = NoKey \/ ~privateKey.pem \/ encryptedKey[2] # privateKey.pair
    THEN [threw |-> TRUE,  plaintext |-> ""]
    ELSE [threw |-> FALSE, plaintext |-> PlaintextOf(encryptedData)]

\* Reading a property of a row the driver returned: the value when the row
\* has a column of that name, nothing (undefined) otherwise
Prop(r, name) == IF name \in DOMAIN r THEN {r[name]} ELSE {}

\* userService.getUserByPhone: SELECT ..., public_key, private_key, ... WHERE phone_number = ?
getUserByPhone(phoneNumber) == { u \in users : u.phone_number = phoneNumber }

\* ---------------------------------------------------------------- inputs
Phones == {"+1234567890", "+5550000000"}
DefaultMessage == "EMERGENCY SOS - Immediate assistance required!"
MessagesIn == {"", "help"}
NotesIn == {"dispatched unit"}
StatusesIn == {"responding", "resolved", "closed"}
UserIds == {1, 7}
DescriptionsIn == {"", "stolen bike"}

\* ---------------------------------------------------------------- handlers
NoSnapshot == [emergency_sos |-> {}, emergency_sos_history |-> <<>>, taken |-> FALSE]

Idle ==
    [pc |-> "idle", route |-> "", tok |-> NoToken, username |-> "", message |-> "",
     crypto |-> "", encryptedMessage |-> NULL, messageEncryptedKey |-> NULL, messageEncryptionIv |-> NULL,
     currentSOS |-> {}, resolvedBy |-> "", resolvedNotes |-> "", historyId |-> 0,
     before |-> NoSnapshot, status |-> 0, body |-> {},
     phoneNumber |-> "", otp |-> "", storedOTP |-> {}, keyPair |-> NoKey,
     replaced |-> {}]

Free(h) == hs[h].pc \in {"idle", "done"}

\* res.status(status).json(body): the handler is finished
Respond(h, req, status, body) ==
    hs' = [hs EXCEPT ![h] = [req EXCEPT !.pc = "done", !.status = status, !.body = body]]

Init ==
    /\ emergency_sos = {}
    /\ emergency_sos_history = <<>>
    /\ complaints = <<>>
    /\ hs = [h \in Handlers |-> Idle]
    /\ now = 0
    /\ removed = 0
    /\ otp_storage = {}
    /\ sqlite_sequence = 0
    /\ issued = [i \in 1..MaxOtps |-> 0]
    /\ mismatched = [i \in 1..MaxOtps |-> 0]
    /\ users = testUsers
    /\ envelopes = <<>>
    /\ randomDrawn = 0

\* ---------------------------------------------------------------- emergencySOSService
\* SELECT ... FROM emergency_sos WHERE username = ?
getEmergencySOSByUsername(table, username) == { r \in table : r.username = username }

\* submitEmergencySOS without its inner try/catch: a throw of the lookup or
\* of the encryption leaves the function
SubmitEnvelopeNoCatch(userPhone, message, dbFail, libFail) ==
    LET user == { u \in users : u.phone_number = userPhone }
        key  == IF user = {} THEN NoKey ELSE (CHOOSE u \in user : TRUE).public_key
        enc  == encryptUserData(message, key, libFail)
    IN  IF dbFail
        THEN [crypto |-> "lookup_threw", rethrown |-> TRUE,
              encryptedMessage |-> NULL, messageEncryptedKey |-> NULL, messageEncryptionIv |-> NULL]
        ELSE IF user = {} \/ key = NoKey
        THEN [crypto |-> "no_key", rethrown |-> FALSE,
              encryptedMessage |-> NULL, messageEncryptedKey |-> NULL, messageEncryptionIv |-> NULL]
        ELSE IF enc.threw
        THEN [crypto |-> "encrypt_threw", rethrown |-> TRUE,
              encryptedMessage |-> NULL, messageEncryptedKey |-> NULL, messageEncryptionIv |-> NULL]
        ELSE [crypto |-> "encrypted", rethrown |-> FALSE, encryptedMessage |-> enc.encryptedData,
              messageEncryptedKey |-> enc.encryptedKey, messageEncryptionIv |-> enc.iv]

\* The inner try/catch of submitEmergencySOS: look the public key up and
\* encrypt; a throw is caught and logged (rethrown is false), and leaves the
\* three locals at their initial null.
SubmitEnvelope(userPhone, message, dbFail, libFail) ==
    LET user == { u \in users : u.phone_number = userPhone }
        key  == IF user = {} THEN NoKey ELSE (CHOOSE u \in user : TRUE).public_key
        enc  == encryptUserData(message, key, libFail)
    IN  IF dbFail
        THEN [crypto |-> "lookup_threw", rethrown |-> FALSE,
              encryptedMessage |-> NULL, messageEncryptedKey |-> NULL, messageEncryptionIv |-> NULL]
        ELSE IF user = {} \/ key = NoKey
        THEN [crypto |-> "no_key", rethrown |-> FALSE,
              encryptedMessage |-> NULL, messageEncryptedKey |-> NULL, messageEncryptionIv |-> NULL]
        ELSE IF enc.threw
        THEN [crypto |-> "encrypt_threw", rethrown |-> FALSE,
              encryptedMessage |-> NULL, messageEncryptedKey |-> NULL, messageEncryptionIv |-> NULL]
        ELSE [crypto |-> "encrypted", rethrown |-> FALSE, encryptedMessage |-> enc.encryptedData,
              messageEncryptedKey |-> enc.encryptedKey, messageEncryptionIv |-> enc.iv]

\* The row INSERT OR REPLACE writes: status and created_at take their defaults
SosRow(req, timestamp) ==
    [username |-> req.username, user_phone |-> req.username, message |-> req.message,
     status |-> "active", created_at |-> timestamp,
     encrypted_message |-> req.encryptedMessage,
     message_encrypted_key |-> req.messageEncryptedKey,
     message_encryption_iv |-> req.messageEncryptionIv]

\* A plain INSERT: the row is added beside whatever the table holds
InsertBeside(table, row) == table \cup {row}

\* An upsert that updates the payload of the conflicting row and keeps its
\* status and created_at
UpdateOnConflict(table, row) ==
    { r \in table : r.username # row.username }
        \cup { [row EXCEPT !.status = r.status, !.created_at = r.created_at] :
                   r \in { x \in table : x.username = row.username } }
        \cup { x \in {row} : \A r \in table : r.username # row.username }

\* INSERT OR REPLACE INTO emergency_sos: username is the primary key, so the
\* conflicting row is deleted before the new one is inserted.
InsertOrReplace(table, row) == { r \in table : r.username # row.username } \cup {row}

\* POST /admin/sos-requests, up to the first statement that changes the
\* database.  No Authorization header is read.  The lookup of the public key
\* touches only the users table, and the encryption after it is synchronous.
\* An error that leaves submitEmergencySOS reaches the route's catch (500).
PostSosRequest(h, tok, userPhone, message, hasLocation, dbFail, libFail) ==
    /\ Free(h)
    /\ LET msg == IF message = "" THEN DefaultMessage ELSE message
           e   == SubmitEnvelope(userPhone, msg, dbFail, libFail)
           req == [Idle EXCEPT !.route = "POST /admin/sos-requests", !.tok = tok]
       IN  IF ~hasLocation
           THEN Respond(h, req, 400, {})
           ELSE IF e.rethrown
           THEN Respond(h, req, 500, {})
           ELSE hs' = [hs EXCEPT ![h] = [req EXCEPT !.pc = "s_write",
                                   !.username = userPhone, !.message = msg, !.crypto = e.crypto,
                                   !.encryptedMessage = e.encryptedMessage,
                                   !.messageEncryptedKey = e.messageEncryptedKey,
                                   !.messageEncryptionIv = e.messageEncryptionIv]]
    /\ UNCHANGED <<emergency_sos, emergency_sos_history, complaints, now, removed>>
    /\ UNCHANGED <<cryptoVars, otpVars, users>>

\* submitEmergencySOS: database.run(INSERT OR REPLACE ...).  With snapshot the
\* request remembers the row the statement removed.
SubmitWrite(h, snapshot) ==
    /\ hs[h].pc = "s_write"
    /\ emergency_sos' = InsertOrReplace(emergency_sos, SosRow(hs[h], now))
    /\ hs' = [hs EXCEPT ![h].pc = "s_read",
                        ![h].replaced = IF snapshot
                                        THEN getEmergencySOSByUsername(emergency_sos, hs[h].username)
                                        ELSE {}]
    /\ UNCHANGED <<emergency_sos_history, complaints, now, removed>>
    /\ UNCHANGED <<cryptoVars, otpVars, users>>

\* submitEmergencySOS: read the row back and answer with it
SubmitRead(h) ==
    /\ hs[h].pc = "s_read"
    /\ Respond(h, [Idle EXCEPT !.route = hs[h].route, !.tok = hs[h].tok], 200,
               getEmergencySOSByUsername(emergency_sos, hs[h].username))
    /\ UNCHANGED <<emergency_sos, emergency_sos_history, complaints, now, removed>>
    /\ UNCHANGED <<cryptoVars, otpVars, users>>

\* UPDATE emergency_sos SET status = ? WHERE username = ?
updateEmergencySOSStatus(table, username, status) ==
    { IF r.username = username THEN [r EXCEPT !.status = status] ELSE r : r \in table }

\* CHECK (status IN ('active', 'responding', 'resolved')) of table emergency_sos
StatusCheck(status) == status \in {"active", "responding", "resolved"}

\* PUT /admin/emergency-sos/:username/status.  The status of the body goes to
\* the UPDATE as it is; a row that fails the CHECK makes the statement throw
\* inside the route's inner try, whose catch answers 401 'Invalid token'.
PutStatus(h, tok, username, status) ==
    /\ Free(h)
    /\ LET req  == [Idle EXCEPT !.route = "PUT /admin/emergency-sos/:username/status", !.tok = tok]
           gate == AdminGate(tok)
           hit  == getEmergencySOSByUsername(emergency_sos, username) # {}
       IN  IF gate # 200
           THEN /\ Respond(h, req, gate, {})
                /\ UNCHANGED emergency_sos
           ELSE IF hit /\ ~StatusCheck(status)
           THEN /\ Respond(h, req, 401, {})
                /\ UNCHANGED emergency_sos
           ELSE /\ emergency_sos' = updateEmergencySOSStatus(emergency_sos, username, status)
                /\ Respond(h, req, IF hit THEN 200 ELSE 404, {})
    /\ UNCHANGED <<emergency_sos_history, complaints, now, removed>>
    /\ UNCHANGED <<cryptoVars, otpVars, users>>

\* Resolves that have been admitted and not yet answered
ResolvesInFlight == { h \in Handlers : hs[h].pc \in {"r_read", "r_insert", "r_delete"} }

\* POST /admin/emergency-sos/:username/resolve, up to the call of
\* resolveEmergencySOS (getPoliceById reads only police_officers).  With
\* snapshot the request remembers the two tables as it found them.
PostResolve(h, tok, username, notes, snapshot) ==
    /\ Free(h)
    /\ Len(emergency_sos_history) + Cardinality(ResolvesInFlight) < MaxHistory
    /\ LET req  == [Idle EXCEPT !.route = "POST /admin/emergency-sos/:username/resolve", !.tok = tok]
           gate == AdminGate(tok)
       IN  IF gate # 200
           THEN Respond(h, req, gate, {})
           ELSE hs' = [hs EXCEPT ![h] = [req EXCEPT !.pc = "r_read", !.username = username,
                                   !.resolvedBy = ResolvedByOf(tok), !.resolvedNotes = notes,
                                   !.before = IF snapshot
                                              THEN [emergency_sos |-> emergency_sos,
                                                    emergency_sos_history |-> emergency_sos_history,
                                                    taken |-> TRUE]
                                              ELSE NoSnapshot]]
    /\ UNCHANGED <<emergency_sos, emergency_sos_history, complaints, now, removed>>
    /\ UNCHANGED <<cryptoVars, otpVars, users>>

\* resolveEmergencySOS: read the current row; 'Emergency SOS not found' is
\* thrown inside the route's inner try, whose catch answers 401 'Invalid token'
ResolveRead(h) ==
    /\ hs[h].pc = "r_read"
    /\ LET cur == getEmergencySOSByUsername(emergency_sos, hs[h].username)
       IN  IF cur = {}
           THEN Respond(h, [Idle EXCEPT !.route = hs[h].route, !.tok = hs[h].tok], 401, {})
           ELSE hs' = [hs EXCEPT ![h].pc = "r_insert", ![h].currentSOS = cur]
    /\ UNCHANGED <<emergency_sos, emergency_sos_history, complaints, now, removed>>
    /\ UNCHANGED <<cryptoVars, otpVars, users>>

\* The history row with sos_created_at left to the clock
HistoryRowCreatedNow(id, cur, resolvedBy, resolvedNotes) ==
    [id |-> id, username |-> cur.username, user_phone |-> cur.user_phone, message |-> cur.message,
     status |-> "resolved", resolved_by |-> resolvedBy, resolved_notes |-> resolvedNotes,
     sos_created_at |-> now,
     encrypted_message |-> NULL, message_encrypted_key |-> NULL, message_encryption_iv |-> NULL]

\* The row INSERT INTO emergency_sos_history writes: the encryption columns
\* are not in the column list, so they stay null
HistoryRow(id, cur, resolvedBy, resolvedNotes) ==
    [id |-> id, username |-> cur.username, user_phone |-> cur.user_phone, message |-> cur.message,
     status |-> "resolved", resolved_by |-> resolvedBy, resolved_notes |-> resolvedNotes,
     sos_created_at |-> cur.created_at,
     encrypted_message |-> NULL, message_encrypted_key |-> NULL, message_encryption_iv |-> NULL]

\* resolveEmergencySOS: insert the history row
ResolveInsert(h) ==
    /\ hs[h].pc = "r_insert"
    /\ LET id  == Len(emergency_sos_history) + 1
           cur == CHOOSE r \in hs[h].currentSOS : TRUE
       IN  /\ emergency_sos_history' =
                 Append(emergency_sos_history, HistoryRow(id, cur, hs[h].resolvedBy, hs[h].resolvedNotes))
           /\ hs' = [hs EXCEPT ![h].pc = "r_delete", ![h].historyId = id]
    /\ UNCHANGED <<emergency_sos, complaints, now, removed>>
    /\ UNCHANGED <<cryptoVars, otpVars, users>>

\* DELETE FROM emergency_sos WHERE username = ?
DeleteByUsername(table, username) == { r \in table : r.username # username }

\* resolveEmergencySOS: delete the active row; deleteResult.changes > 0 decides 200 or 404
ResolveDelete(h) ==
    /\ hs[h].pc = "r_delete"
    /\ LET changes == Cardinality(getEmergencySOSByUsername(emergency_sos, hs[h].username))
       IN  /\ emergency_sos' = DeleteByUsername(emergency_sos, hs[h].username)
           /\ removed' = removed + changes
           /\ Respond(h, [Idle EXCEPT !.route = hs[h].route, !.tok = hs[h].tok,
                                      !.username = hs[h].username, !.resolvedBy = hs[h].resolvedBy,
                                      !.resolvedNotes = hs[h].resolvedNotes, !.before = hs[h].before],
                      IF changes > 0 THEN 200 ELSE 404, {})
    /\ UNCHANGED <<emergency_sos_history, complaints, now>>
    /\ UNCHANGED <<cryptoVars, otpVars, users>>

\* resolveEmergencySOS: the DELETE throws (SQLITE_BUSY, I/O error or a lost
\* connection); the function rethrows and the route's inner catch answers 401.
\* The history row of the INSERT stays: the two statements share no
\* transaction.
ResolveDeleteThrows(h) ==
    /\ hs[h].pc = "r_delete"
    /\ Respond(h, [Idle EXCEPT !.route = hs[h].route, !.tok = hs[h].tok,
                               !.username = hs[h].username, !.resolvedBy = hs[h].resolvedBy,
                               !.resolvedNotes = hs[h].resolvedNotes, !.before = hs[h].before,
                               !.currentSOS = hs[h].currentSOS, !.historyId = hs[h].historyId],
               401, {})
    /\ UNCHANGED <<emergency_sos, emergency_sos_history, complaints, now, removed>>
    /\ UNCHANGED <<cryptoVars, otpVars, users>>

\* getAllEmergencySOS: SELECT username, user_phone as userPhone, ...,
\* created_at as createdAt ... FROM emergency_sos
getAllEmergencySOS(table) ==
    { [username |-> r.username, userPhone |-> r.user_phone, message |-> r.message, status |-> r.status,
       encrypted_message |-> r.encrypted_message,
       message_encrypted_key |-> r.message_encrypted_key,
       message_encryption_iv |-> r.message_encryption_iv,
       createdAt |-> r.created_at] : r \in table }

\* What the listing makes of one row: the owner is looked up by sos.user_phone;
\* with an owner and a complete envelope the message is replaced by the
\* decrypted text, a throw keeps the stored message, and otherwise the row is
\* passed on as stored.
DecryptSos(sos) ==
    LET user == UNION { getUserByPhone(p) : p \in Prop(sos, "user_phone") }
    IN  IF user # {} /\ sos.encrypted_message # NULL /\ sos.message_encrypted_key # NULL
              /\ sos.message_encryption_iv # NULL
        THEN LET d == decryptUserData(sos.encrypted_message, sos.message_encrypted_key,
                                      sos.message_encryption_iv, (CHOOSE u \in user : TRUE).private_key)
             IN  IF d.threw
                 THEN [sos EXCEPT !.message = IF @ # "" THEN @ ELSE "[Decryption failed]"]
                          @@ [isDecrypted |-> FALSE, decryptionError |-> TRUE]
                 ELSE [sos EXCEPT !.message = d.plaintext]
                          @@ [isDecrypted |-> TRUE, decryptionError |-> FALSE]
        ELSE sos @@ [isDecrypted |-> FALSE, decryptionError |-> FALSE]

\* GET /admin/emergency-sos: the gated listing of the active table
GetEmergencySOS(h, tok) ==
    /\ Free(h)
    /\ LET req  == [Idle EXCEPT !.route = "GET /admin/emergency-sos", !.tok = tok]
           gate == AdminGate(tok)
       IN  Respond(h, req, gate,
                   IF gate = 200 THEN { DecryptSos(sos) : sos \in getAllEmergencySOS(emergency_sos) } ELSE {})
    /\ UNCHANGED <<emergency_sos, emergency_sos_history, complaints, now, removed>>
    /\ UNCHANGED <<cryptoVars, otpVars, users>>

\* GET /debug/emergency-sos: no Authorization header is read
GetDebugEmergencySOS(h, tok) ==
    /\ Free(h)
    /\ LET req == [Idle EXCEPT !.route = "GET /debug/emergency-sos", !.tok = tok]
       IN  Respond(h, req, 200, getAllEmergencySOS(emergency_sos))
    /\ UNCHANGED <<emergency_sos, emergency_sos_history, complaints, now, removed>>
    /\ UNCHANGED <<cryptoVars, otpVars, users>>

\* ---------------------------------------------------------------- complaints
\* userService.getUserById: SELECT id, phone_number, ..., public_key, ... WHERE id = ?
\* (private_key is not among the selected columns)
getUserById(userId) ==
    { [id |-> u.id, phone_number |-> u.phone_number, public_key |-> u.public_key] :
          u \in { x \in users : x.id = userId } }

\* createComplaint with encryption_iv missing from the column list
createComplaintWithoutIv(table, userId, description, encryptedDescription, encryptedKey, encryptionIv) ==
    Append(table, [id |-> Len(table) + 1, user_id |-> userId, description |-> description,
                   status |-> "pending", assigned_to |-> 0, response_notes |-> "",
                   encrypted_description |-> encryptedDescription,
                   encrypted_key |-> encryptedKey, encryption_iv |-> NULL])

\* complaintService.createComplaint: INSERT INTO complaints
createComplaint(table, userId, description, encryptedDescription, encryptedKey, encryptionIv) ==
    Append(table, [id |-> Len(table) + 1, user_id |-> userId, description |-> description,
                   status |-> "pending", assigned_to |-> 0, response_notes |-> "",
                   encrypted_description |-> encryptedDescription,
                   encrypted_key |-> encryptedKey, encryption_iv |-> encryptionIv])

\* What POST /admin/complaints does once the user is found: encryptUserData
\* is called outside any local try, so its throw reaches the route's catch
\* (500) before createComplaint runs.
ComplaintOutcome(table, userId, description, user, libFail) ==
    LET enc == encryptUserData(description, user.public_key, libFail)
    IN  IF enc.threw
        THEN [status |-> 500, crypto |-> "encrypt_threw", table |-> table]
        ELSE [status |-> 200, crypto |-> "encrypted",
              table |-> createComplaint(table, userId, description,
                                        enc.encryptedData, enc.encryptedKey, enc.iv)]

\* POST /admin/complaints: no Authorization header is read
PostComplaint(h, tok, userId, description, libFail) ==
    /\ Free(h)
    /\ Len(complaints) < MaxComplaints
    /\ LET req  == [Idle EXCEPT !.route = "POST /admin/complaints", !.tok = tok]
           user == getUserById(userId)
       IN  IF user = {}
           THEN /\ Respond(h, req, 404, {})
                /\ UNCHANGED complaints
           ELSE LET out == ComplaintOutcome(complaints, userId, description, CHOOSE u \in user : TRUE, libFail)
                IN  /\ complaints' = out.table
                    /\ Respond(h, [req EXCEPT !.crypto = out.crypto], out.status, {})
    /\ UNCHANGED <<emergency_sos, emergency_sos_history, now, removed>>
    /\ UNCHANGED <<cryptoVars, otpVars, users>>

\* complaintService.updateComplaintStatus(id, status, officerId, responseNotes)
updateComplaintStatus(table, id, status, officerId, responseNotes) ==
    [i \in DOMAIN table |->
        IF table[i].id = id
        THEN [table[i] EXCEPT !.status = status,
                              !.assigned_to = IF officerId # 0 THEN officerId ELSE @,
                              !.response_notes = IF responseNotes # "" THEN responseNotes ELSE @]
        ELSE table[i]]

\* CHECK (status IN ('pending', 'assigned', 'in_progress', 'resolved', 'rejected')) of table complaints
ComplaintStatusCheck(status) == status \in {"pending", "assigned", "in_progress", "resolved", "rejected"}

\* The statuses and officers a caller of the complaint service can pass
ComplaintStatusesIn == {"pending", "assigned", "in_progress", "resolved", "rejected", "closed"}
OfficerIds == {0, 2}

\* complaintService.assignComplaintToOfficer: UPDATE complaints SET
\* assigned_to = ?, status = 'assigned' WHERE id = ?
assignComplaintToOfficer(table, id, officerId) ==
    [i \in DOMAIN table |->
        IF table[i].id = id
        THEN [table[i] EXCEPT !.status = "assigned", !.assigned_to = officerId]
        ELSE table[i]]

\* A call of complaintService.updateComplaintStatus: one UPDATE, which throws
\* and changes nothing when the new status fails the CHECK of a row it hits
UpdateComplaintStatus(id, status, officerId, responseNotes) ==
    /\ id \in DOMAIN complaints
    /\ complaints' = IF ComplaintStatusCheck(status)
                     THEN updateComplaintStatus(complaints, id, status, officerId, responseNotes)
                     ELSE complaints
    /\ UNCHANGED <<cryptoVars, emergency_sos, emergency_sos_history, hs, now, removed, otpVars, users>>

\* A call of complaintService.assignComplaintToOfficer
AssignComplaintToOfficer(id, officerId) ==
    /\ id \in DOMAIN complaints
    /\ complaints' = assignComplaintToOfficer(complaints, id, officerId)
    /\ UNCHANGED <<cryptoVars, emergency_sos, emergency_sos_history, hs, now, removed, otpVars, users>>

\* POST /admin/complaints/:id/resolve
ResolveComplaint(h, tok, id, notes) ==
    /\ Free(h)
    /\ LET req  == [Idle EXCEPT !.route = "POST /admin/complaints/:id/resolve", !.tok = tok]
           gate == AdminGate(tok)
       IN  IF gate # 200
           THEN /\ Respond(h, req, gate, {})
                /\ UNCHANGED complaints
           ELSE IF id \notin DOMAIN complaints
           THEN /\ Respond(h, req, 404, {})
                /\ UNCHANGED complaints
           ELSE /\ complaints' = updateComplaintStatus(complaints, id, "resolved", tok.userId,
                                     IF notes # "" THEN notes ELSE "Complaint resolved by police officer")
                /\ Respond(h, req, 200, {})
    /\ UNCHANGED <<emergency_sos, emergency_sos_history, now, removed>>
    /\ UNCHANGED <<cryptoVars, otpVars, users>>

\* complaintService.getAllComplaints: SELECT c.id, c.user_id as userId, ...,
\* c.assigned_to as assignedTo, c.response_notes as responseNotes, ... FROM complaints c
getAllComplaints(table) ==
    { [id |-> table[i].id, userId |-> table[i].user_id, description |-> table[i].description,
       status |-> table[i].status, assignedTo |-> table[i].assigned_to,
       responseNotes |-> table[i].response_notes,
       encrypted_description |-> table[i].encrypted_description,
       encrypted_key |-> table[i].encrypted_key,
       encryption_iv |-> table[i].encryption_iv] : i \in DOMAIN table }

\* What the listing makes of one complaint: the owner is looked up by
\* complaint.user_id and the key read from user.private_key
DecryptComplaint(complaint) ==
    LET user == UNION { getUserById(id) : id \in Prop(complaint, "user_id") }
    IN  IF user # {} /\ complaint.encrypted_description # NULL /\ complaint.encrypted_key # NULL
              /\ complaint.encryption_iv # NULL
        THEN LET keys == Prop(CHOOSE u \in user : TRUE, "private_key")
                 d    == decryptUserData(complaint.encrypted_description, complaint.encrypted_key,
                                         complaint.encryption_iv,
                                         IF keys = {} THEN NoKey ELSE CHOOSE k \in keys : TRUE)
             IN  IF d.threw
                 THEN [complaint EXCEPT !.description = IF @ # "" THEN @ ELSE "[Decryption failed]"]
                          @@ [isDecrypted |-> FALSE, decryptionError |-> TRUE]
                 ELSE [complaint EXCEPT !.description = d.plaintext]
                          @@ [isDecrypted |-> TRUE, decryptionError |-> FALSE]
        ELSE complaint @@ [isDecrypted |-> FALSE, decryptionError |-> FALSE]

\* GET /admin/complaints: the gated listing of the complaints table
GetComplaints(h, tok) ==
    /\ Free(h)
    /\ LET req  == [Idle EXCEPT !.route = "GET /admin/complaints", !.tok = tok]
           gate == AdminGate(tok)
       IN  Respond(h, req, gate,
                   IF gate = 200 THEN { DecryptComplaint(c) : c \in getAllComplaints(complaints) } ELSE {})
    /\ UNCHANGED <<emergency_sos, emergency_sos_history, complaints, now, removed>>
    /\ UNCHANGED <<cryptoVars, otpVars, users>>

\* CURRENT_TIMESTAMP advances
Tick ==
    /\ now < MaxTime
    /\ now' = now + 1
    /\ UNCHANGED <<emergency_sos, emergency_sos_history, complaints, hs, removed>>
    /\ UNCHANGED <<cryptoVars, otpVars, users>>

\* ---------------------------------------------------------------- otp
OTP_EXPIRY_MINUTES == 5
MAX_OTP_ATTEMPTS == 3
TEST_PHONE_NUMBERS == {"+1234567890", "1234567890"}
TEST_OTP == "123456"

\* generateOTP(): the six-digit codes the random generator is taken to draw from
OtpCodes == {"111111", "222222"}
\* req.body.phoneNumber and req.body.otp of the two routes
OtpPhonesIn == {"", "+9876543210"}
OtpIn == {"", "111111", "222222"}

\* The minutes the clock can advance by in one step
ElapseIn == {1, OTP_EXPIRY_MINUTES}

\* otpService.getOTP: SELECT ... WHERE phone_number = ? AND datetime(expires_at)
\* > datetime('now') ORDER BY created_at DESC LIMIT 1.  The rows the statement
\* can return: the unexpired rows of the phone with the latest created_at.
getOTP(table, phoneNumber, t) ==
    LET live == { r \in table : r.phone_number = phoneNumber /\ r.expires_at > t }
    IN  { r \in live : \A q \in live : q.created_at <= r.created_at }

\* DELETE FROM otp_storage WHERE phone_number = ?
deleteOTP(table, phoneNumber) == { r \in table : r.phone_number # phoneNumber }

\* otpService.incrementAttempts: UPDATE otp_storage SET attempts = attempts + 1
\* WHERE phone_number = ?
incrementAttempts(table, phoneNumber) ==
    { IF r.phone_number = phoneNumber THEN [r EXCEPT !.attempts = @ + 1] ELSE r : r \in table }

\* Requests between their first and last statement on otp_storage that will
\* insert a row
GeneratesInFlight == { h \in Handlers : hs[h].pc \in {"g_read", "g_check", "g_delete", "g_insert"} }

\* POST /generate-otp up to the call of otpService.getOTP: 400 without a
\* phone number; getUserByPhone only reads the users table
PostGenerateOtp(h, phoneNumber) ==
    /\ Free(h)
    /\ sqlite_sequence + Cardinality(GeneratesInFlight) < MaxOtps
    /\ LET req == [Idle EXCEPT !.route = "POST /generate-otp", !.phoneNumber = phoneNumber]
       IN  IF phoneNumber = ""
           THEN Respond(h, req, 400, [message |-> "Phone number is required"])
           ELSE hs' = [hs EXCEPT ![h] = [req EXCEPT !.pc = "g_read"]]
    /\ UNCHANGED <<cryptoVars, now, users, storeVars, otpVars>>

\* POST /generate-otp: existingOTP = await otpService.getOTP(normalizedPhone)
GenerateRead(h) ==
    /\ hs[h].pc = "g_read"
    /\ LET found == getOTP(otp_storage, hs[h].phoneNumber, now)
       IN  \/ /\ found = {}
              /\ hs' = [hs EXCEPT ![h].pc = "g_check", ![h].storedOTP = {}]
           \/ \E r \in found : hs' = [hs EXCEPT ![h].pc = "g_check", ![h].storedOTP = {r}]
    /\ UNCHANGED <<cryptoVars, now, users, storeVars, otpVars>>

\* The check of the existing OTP under a comparison that also answers 429 at
\* the instant of expiry, with remainingTime 0
GenerateOutcomeAtExpiry(existingOTP, t, phoneNumber, code) ==
    IF existingOTP # {} /\ (CHOOSE r \in existingOTP : TRUE).expires_at >= t
    THEN [status |-> 429, remainingTime |-> (CHOOSE r \in existingOTP : TRUE).expires_at - t,
          otp |-> "", expiresAt |-> 0]
    ELSE [status |-> 200, remainingTime |-> 0,
          otp |-> IF phoneNumber \in TEST_PHONE_NUMBERS THEN TEST_OTP ELSE code,
          expiresAt |-> t + OTP_EXPIRY_MINUTES]

\* POST /generate-otp after getOTP: 429 with the remaining minutes when the
\* row read is still unexpired by the server's clock; otherwise the new code
\* (TEST_OTP for a test number) and its expiry
GenerateOutcome(existingOTP, t, phoneNumber, code) ==
    IF existingOTP # {} /\ (CHOOSE r \in existingOTP : TRUE).expires_at > t
    THEN [status |-> 429, remainingTime |-> (CHOOSE r \in existingOTP : TRUE).expires_at - t,
          otp |-> "", expiresAt |-> 0]
    ELSE [status |-> 200, remainingTime |-> 0,
          otp |-> IF phoneNumber \in TEST_PHONE_NUMBERS THEN TEST_OTP ELSE code,
          expiresAt |-> t + OTP_EXPIRY_MINUTES]

\* POST /generate-otp: the continuation after getOTP
GenerateCheck(h, code) ==
    /\ hs[h].pc = "g_check"
    /\ LET out == GenerateOutcome(hs[h].storedOTP, now, hs[h].phoneNumber, code)
       IN  IF out.status = 429
           THEN Respond(h, [Idle EXCEPT !.route = hs[h].route, !.phoneNumber = hs[h].phoneNumber,
                                        !.storedOTP = hs[h].storedOTP],
                        429, [message |-> "OTP already sent", remainingTime |-> out.remainingTime])
           ELSE hs' = [hs EXCEPT ![h].pc = "g_delete", ![h].otp = out.otp,
                                 ![h].storedOTP = {[expires_at |-> out.expiresAt]}]
    /\ UNCHANGED <<cryptoVars, now, users, storeVars, otpVars>>

\* otpService.storeOTP: DELETE FROM otp_storage WHERE phone_number = ?
GenerateDelete(h) ==
    /\ hs[h].pc = "g_delete"
    /\ otp_storage' = deleteOTP(otp_storage, hs[h].phoneNumber)
    /\ hs' = [hs EXCEPT ![h].pc = "g_insert"]
    /\ UNCHANGED <<cryptoVars, now, users, storeVars, sqlite_sequence, issued, mismatched>>

\* otpService.storeOTP: INSERT INTO otp_storage (phone_number, otp, expires_at);
\* id is the next AUTOINCREMENT value, attempts defaults to 0
GenerateInsert(h) ==
    /\ hs[h].pc = "g_insert"
    /\ sqlite_sequence' = sqlite_sequence + 1
    /\ otp_storage' = otp_storage \cup
           { [id |-> sqlite_sequence + 1, phone_number |-> hs[h].phoneNumber, otp |-> hs[h].otp,
              expires_at |-> (CHOOSE r \in hs[h].storedOTP : TRUE).expires_at,
              attempts |-> 0, created_at |-> now] }
    /\ Respond(h, [Idle EXCEPT !.route = hs[h].route, !.phoneNumber = hs[h].phoneNumber],
               200, [message |-> "OTP generated successfully", otp |-> hs[h].otp])
    /\ UNCHANGED <<cryptoVars, now, users, storeVars, issued, mismatched>>

\* POST /login up to the call of otpService.getOTP: 400 without phone number
\* or code, 404 when getUserByPhone finds no user
PostLogin(h, phoneNumber, otp) ==
    /\ Free(h)
    /\ LET req == [Idle EXCEPT !.route = "POST /login", !.phoneNumber = phoneNumber, !.otp = otp]
       IN  IF phoneNumber = "" \/ otp = ""
           THEN Respond(h, req, 400, [message |-> "Phone number and OTP are required"])
           ELSE IF getUserByPhone(phoneNumber) = {}
           THEN Respond(h, req, 404, [message |-> "Phone number not registered"])
           ELSE hs' = [hs EXCEPT ![h] = [req EXCEPT !.pc = "l_read"]]
    /\ UNCHANGED <<cryptoVars, now, users, storeVars, otpVars>>

\* POST /login: storedOTP = await otpService.getOTP(normalizedPhone); without
\* a row the answer is 400 'No OTP found'
LoginRead(h) ==
    /\ hs[h].pc = "l_read"
    /\ LET found == getOTP(otp_storage, hs[h].phoneNumber, now)
           req   == [Idle EXCEPT !.route = hs[h].route, !.phoneNumber = hs[h].phoneNumber, !.otp = hs[h].otp]
       IN  \/ /\ found = {}
              /\ Respond(h, req, 400, [message |-> "No OTP found"])
           \/ \E r \in found : hs' = [hs EXCEPT ![h].pc = "l_check", ![h].storedOTP = {r}]
    /\ UNCHANGED <<cryptoVars, now, users, storeVars, otpVars>>

\* The checks with the attempt limit tested by > instead of >=
LoginDecisionOneMore(storedOTP, otp, t) ==
    IF storedOTP.expires_at <= t THEN "l_expired"
    ELSE IF storedOTP.attempts > MAX_OTP_ATTEMPTS THEN "l_exceeded"
    ELSE IF storedOTP.otp # otp THEN "l_increment"
    ELSE "l_delete"

\* The checks without the comparison of the code
LoginDecisionAnyCode(storedOTP, otp, t) ==
    IF storedOTP.expires_at <= t THEN "l_expired"
    ELSE IF storedOTP.attempts >= MAX_OTP_ATTEMPTS THEN "l_exceeded"
    ELSE "l_delete"

\* POST /login, the checks on the row read, in the order of the code: expired
\* by the server's clock, attempts at the maximum, code unequal, code equal.
\* The result names the statement the request issues next.
LoginDecision(storedOTP, otp, t) ==
    IF storedOTP.expires_at <= t THEN "l_expired"
    ELSE IF storedOTP.attempts >= MAX_OTP_ATTEMPTS THEN "l_exceeded"
    ELSE IF storedOTP.otp # otp THEN "l_increment"
    ELSE "l_delete"

\* POST /login: the continuation after getOTP
LoginCheck(h) ==
    /\ hs[h].pc = "l_check"
    /\ LET r    == CHOOSE x \in hs[h].storedOTP : TRUE
           next == LoginDecision(r, hs[h].otp, now)
       IN  /\ hs' = [hs EXCEPT ![h].pc = next]
           /\ mismatched' = IF next = "l_increment" THEN [mismatched EXCEPT ![r.id] = @ + 1] ELSE mismatched
    /\ UNCHANGED <<cryptoVars, now, users, storeVars, otp_storage, sqlite_sequence, issued>>

\* POST /login: the OTP has expired: deleteOTP, 400
LoginExpired(h) ==
    /\ hs[h].pc = "l_expired"
    /\ otp_storage' = deleteOTP(otp_storage, hs[h].phoneNumber)
    /\ Respond(h, [Idle EXCEPT !.route = hs[h].route, !.phoneNumber = hs[h].phoneNumber,
                               !.otp = hs[h].otp, !.storedOTP = hs[h].storedOTP],
               400, [message |-> "OTP has expired"])
    /\ UNCHANGED <<cryptoVars, now, users, storeVars, sqlite_sequence, issued, mismatched>>

\* POST /login: maximum attempts exceeded: deleteOTP, 429
LoginExceeded(h) ==
    /\ hs[h].pc = "l_exceeded"
    /\ otp_storage' = deleteOTP(otp_storage, hs[h].phoneNumber)
    /\ Respond(h, [Idle EXCEPT !.route = hs[h].route, !.phoneNumber = hs[h].phoneNumber,
                               !.otp = hs[h].otp, !.storedOTP = hs[h].storedOTP],
               429, [message |-> "Maximum OTP attempts exceeded"])
    /\ UNCHANGED <<cryptoVars, now, users, storeVars, sqlite_sequence, issued, mismatched>>

\* POST /login: the code is wrong: incrementAttempts, 400 with
\* remainingAttempts = MAX_OTP_ATTEMPTS - (storedOTP.attempts + 1)
LoginIncrement(h) ==
    /\ hs[h].pc = "l_increment"
    /\ otp_storage' = incrementAttempts(otp_storage, hs[h].phoneNumber)
    /\ LET r == CHOOSE x \in hs[h].storedOTP : TRUE
       IN  Respond(h, [Idle EXCEPT !.route = hs[h].route, !.phoneNumber = hs[h].phoneNumber,
                                   !.otp = hs[h].otp, !.storedOTP = hs[h].storedOTP],
                   400, [message |-> "Invalid OTP",
                         remainingAttempts |-> MAX_OTP_ATTEMPTS - (r.attempts + 1)])
    /\ UNCHANGED <<cryptoVars, now, users, storeVars, sqlite_sequence, issued, mismatched>>

\* userService.updateUser(userData.id, {is_verified: true, last_login})
updateUser(table, userId) ==
    { IF u.id = userId THEN [u EXCEPT !.is_verified = TRUE] ELSE u : u \in table }

\* POST /login: the code is right: deleteOTP, updateUser, then jwt.sign and
\* 200 with the token
LoginDelete(h) ==
    /\ hs[h].pc = "l_delete"
    /\ otp_storage' = deleteOTP(otp_storage, hs[h].phoneNumber)
    /\ LET r == CHOOSE x \in hs[h].storedOTP : TRUE
           u == CHOOSE x \in getUserByPhone(hs[h].phoneNumber) : TRUE
       IN  /\ users' = updateUser(users, u.id)
           /\ issued' = [issued EXCEPT ![r.id] = @ + 1]
           /\ Respond(h, [Idle EXCEPT !.route = hs[h].route, !.phoneNumber = hs[h].phoneNumber,
                                      !.otp = hs[h].otp, !.storedOTP = hs[h].storedOTP],
                      200, [message |-> "Login successful", token |-> CitizenToken(u)])
    /\ UNCHANGED <<cryptoVars, now, storeVars, sqlite_sequence, mismatched>>

\* The clock advances by some minutes
Elapse(minutes) ==
    /\ now + minutes <= MaxClock
    /\ now' = now + minutes
    /\ UNCHANGED <<cryptoVars, hs, users, storeVars, otpVars>>

\* ---------------------------------------------------------------- register
\* req.body.name and req.body.phoneNumber of POST /register
NamesIn == {"", "Asha"}
RegisterPhonesIn == {"12345", "+1234567890", "+5550000000", "+5550000001"}

\* isValidPhoneNumber: /^[\+]?[1-9][\d]{9,14}$/ on the phone number without
\* spaces, hyphens and parentheses
isValidPhoneNumber(phoneNumber) == phoneNumber \in {"+1234567890", "+9876543210", "+5550000000", "+5550000001"}

\* The key pairs held by the users table or by a request that has generated one
KeyPairsInUse ==
    { u.private_key.pair : u \in users } \cup { hs[h].keyPair.pair : h \in Handlers }

\* generateUserKeyPair(): a 2048-bit RSA pair no earlier call has returned
generateUserKeyPair == [pem |-> TRUE, pair |-> CHOOSE n \in 1..(Cardinality(KeyPairsInUse) + 1) : n \notin KeyPairsInUse]

\* POST /register up to the lookup of the phone number: 400 for a missing or
\* short name and for a phone number of the wrong format
PostRegister(h, name, phoneNumber) ==
    /\ Free(h)
    /\ LET req == [Idle EXCEPT !.route = "POST /register", !.phoneNumber = phoneNumber]
       IN  IF name = "" \/ phoneNumber = ""
           THEN Respond(h, req, 400, [message |-> "Name, date of birth, and phone number are required"])
           ELSE IF ~isValidPhoneNumber(phoneNumber)
           THEN Respond(h, req, 400, [message |-> "Invalid phone number format"])
           ELSE hs' = [hs EXCEPT ![h] = [req EXCEPT !.pc = "reg_read"]]
    /\ UNCHANGED <<cryptoVars, now, users, storeVars, otpVars>>

\* POST /register: existingUser = await userService.getUserByPhone; 409 when
\* it finds a user, otherwise the key pair is generated
RegisterRead(h) ==
    /\ hs[h].pc = "reg_read"
    /\ IF getUserByPhone(hs[h].phoneNumber) # {}
       THEN Respond(h, [Idle EXCEPT !.route = hs[h].route, !.phoneNumber = hs[h].phoneNumber],
                    409, [message |-> "User with this phone number already exists"])
       ELSE hs' = [hs EXCEPT ![h].pc = "reg_insert", ![h].keyPair = generateUserKeyPair]
    /\ UNCHANGED <<cryptoVars, now, users, storeVars, otpVars>>

\* userService.createUser: INSERT INTO users; phone_number is UNIQUE, so the
\* statement throws when the table holds the phone number; id is the next
\* AUTOINCREMENT value and is_verified defaults to 0
createUser(table, phoneNumber, keyPair) ==
    IF \E u \in table : u.phone_number = phoneNumber
    THEN [threw |-> TRUE, table |-> table]
    ELSE [threw |-> FALSE,
          table |-> table \cup { [id |-> Cardinality(table) + 1, phone_number |-> phoneNumber,
                                  is_verified |-> FALSE, public_key |-> keyPair, private_key |-> keyPair] }]

\* POST /register: createUser, then the row is read back and answered with
\* 201; a throw of createUser reaches the route's catch (500)
RegisterInsert(h) ==
    /\ hs[h].pc = "reg_insert"
    /\ LET out == createUser(users, hs[h].phoneNumber, hs[h].keyPair)
           req == [Idle EXCEPT !.route = hs[h].route, !.phoneNumber = hs[h].phoneNumber]
       IN  /\ users' = out.table
           /\ IF out.threw
              THEN Respond(h, req, 500, [message |-> "Internal server error during registration"])
              ELSE Respond(h, req, 201, [message |-> "User registered successfully",
                                         user |-> { u \in out.table : u.phone_number = hs[h].phoneNumber }])
    /\ UNCHANGED <<cryptoVars, now, storeVars, otpVars>>

\* ---------------------------------------------------------------- crypto.js, byte level
\* A text is the sequence of the UTF-16 code units of a JavaScript string:
\* 'A', e-acute, the euro sign followed by 'A', an emoji (a surrogate pair)
\* and a high surrogate on its own
TextsIn == { <<>>, <<65>>, <<233>>, <<8364, 65>>, <<55357, 56832>>, <<55296>> }

\* The key pairs generateUserKeyPair has returned
KeyPairsIn == { [pem |-> TRUE, pair |-> n] : n \in 1..2 }

isHighSurrogate(c) == c >= 55296 /\ c <= 56319
isLowSurrogate(c) == c >= 56320 /\ c <= 57343

\* The UTF-8 bytes of one code point
utf8Bytes(c) ==
    IF c < 128 THEN <<c>>
    ELSE IF c < 2048 THEN <<192 + (c \div 64), 128 + (c % 64)>>
    ELSE IF c < 65536 THEN <<224 + (c \div 4096), 128 + ((c \div 64) % 64), 128 + (c % 64)>>
    ELSE <<240 + (c \div 262144), 128 + ((c \div 4096) % 64), 128 + ((c \div 64) % 64), 128 + (c % 64)>>

\* Buffer.from(data, 'utf8'): a surrogate pair is one code point, a surrogate
\* without its partner is written as U+FFFD
RECURSIVE utf8Encode(_)
utf8Encode(text) ==
    IF text = <<>> THEN <<>>
    ELSE IF Len(text) >= 2 /\ isHighSurrogate(text[1]) /\ isLowSurrogate(text[2])
    THEN utf8Bytes(65536 + (text[1] - 55296) * 1024 + (text[2] - 56320))
             \o utf8Encode(SubSeq(text, 3, Len(text)))
    ELSE IF isHighSurrogate(text[1]) \/ isLowSurrogate(text[1])
    THEN utf8Bytes(65533) \o utf8Encode(Tail(text))
    ELSE utf8Bytes(text[1]) \o utf8Encode(Tail(text))

\* The code units of one code point
codeUnits(c) ==
    IF c < 65536 THEN <<c>>
    ELSE <<55296 + ((c - 65536) \div 1024), 56320 + ((c - 65536) % 1024)>>

\* buffer.toString('utf8')
RECURSIVE utf8Decode(_)
utf8Decode(bytes) ==
    IF bytes = <<>> THEN <<>>
    ELSE IF bytes[1] < 128
    THEN <<bytes[1]>> \o utf8Decode(Tail(bytes))
    ELSE IF bytes[1] >= 192 /\ bytes[1] < 224 /\ Len(bytes) >= 2
    THEN codeUnits((bytes[1] - 192) * 64 + (bytes[2] - 128))
             \o utf8Decode(SubSeq(bytes, 3, Len(bytes)))
    ELSE IF bytes[1] >= 224 /\ bytes[1] < 240 /\ Len(bytes) >= 3
    THEN codeUnits((bytes[1] - 224) * 4096 + (bytes[2] - 128) * 64 + (bytes[3] - 128))
             \o utf8Decode(SubSeq(bytes, 4, Len(bytes)))
    ELSE IF bytes[1] >= 240 /\ bytes[1] < 248 /\ Len(bytes) >= 4
    THEN codeUnits((bytes[1] - 240) * 262144 + (bytes[2] - 128) * 4096
                       + (bytes[3] - 128) * 64 + (bytes[4] - 128))
             \o utf8Decode(SubSeq(bytes, 5, Len(bytes)))
    ELSE <<65533>> \o utf8Decode(Tail(bytes))

\* AES_IV_LENGTH, the block size of the cipher in bytes
AES_IV_LENGTH == 16

\* cipher.update and cipher.final: the data is padded to whole blocks, each
\* padding byte holding the number of padding bytes
pkcs7Pad(bytes) ==
    LET k == AES_IV_LENGTH - (Len(bytes) % AES_IV_LENGTH)
    IN  bytes \o [i \in 1..k |-> k]

\* decipher.final: the padding is taken off
pkcs7Unpad(bytes) == SubSeq(bytes, 1, Len(bytes) - bytes[Len(bytes)])

\* A generator that hands out the buffer it handed out first
generateRandomBufferFixed(drawn) == 1

\* generateRandomBuffer: crypto.randomBytes(length), the next buffer of the
\* generator, unequal to the buffers drawn before
generateRandomBuffer(drawn) == drawn + 1

generateAESKey(drawn) == generateRandomBuffer(drawn)

generateIV(drawn) == generateRandomBuffer(drawn)

\* encryptWithAES with the key and the IV it has generated: throws on empty
\* data, otherwise the ciphertext of the padded UTF-8 bytes under key and IV
encryptWithAES(data, aesKey, iv) ==
    IF data = <<>>
    THEN [threw |-> TRUE]
    ELSE [threw |-> FALSE,
          encryptedData |-> [algorithm |-> "aes-256-cbc", key |-> aesKey, iv |-> iv,
                             blocks |-> pkcs7Pad(utf8Encode(data))],
          aesKey |-> aesKey, iv |-> iv]

\* decryptWithAES reading the plaintext bytes one character each
decryptWithAESLatin1(encryptedData, aesKey, iv) ==
    IF encryptedData.key # aesKey \/ encryptedData.iv # iv
    THEN [threw |-> TRUE]
    ELSE [threw |-> FALSE, decryptedText |-> pkcs7Unpad(encryptedData.blocks)]

\* decryptWithAES: the decipher fails with another key or IV than the cipher's
\* (bad decrypt), otherwise the unpadded bytes are read as UTF-8
decryptWithAES(encryptedData, aesKey, iv) ==
    IF encryptedData.key # aesKey \/ encryptedData.iv # iv
    THEN [threw |-> TRUE]
    ELSE [threw |-> FALSE, decryptedText |-> utf8Decode(pkcs7Unpad(encryptedData.blocks))]

\* encryptWithRSA: throws unless the key is a PEM public key
encryptWithRSA(aesKey, publicKey) ==
    IF publicKey = NoKey \/ ~publicKey.pem
    THEN [threw |-> TRUE]
    ELSE [threw |-> FALSE,
          encryptedAESKey |-> [algorithm |-> "RSA-OAEP", pair |-> publicKey.pair, key |-> aesKey]]

\* decryptWithRSA: throws unless the key is the PEM private key of the pair
\* that wrapped the AES key
decryptWithRSA(encryptedAESKey, privateKey) ==
    IF privateKey = NoKey \/ ~privateKey.pem \/ encryptedAESKey.pair # privateKey.pair
    THEN [threw |-> TRUE]
    ELSE [threw |-> FALSE, decryptedAESKey |-> encryptedAESKey.key]

\* hybridEncrypt: encryptWithAES, then encryptWithRSA of its key
hybridEncrypt(data, publicKey, aesKey, iv) ==
    LET aesResult == encryptWithAES(data, aesKey, iv)
        rsaResult == encryptWithRSA(aesKey, publicKey)
    IN  IF aesResult.threw \/ rsaResult.threw
        THEN [threw |-> TRUE]
        ELSE [threw |-> FALSE, encryptedData |-> aesResult.encryptedData,
              encryptedAESKey |-> rsaResult.encryptedAESKey, iv |-> aesResult.iv]

\* hybridDecrypt: decryptWithRSA, then decryptWithAES with the key it returns
hybridDecrypt(encryptedData, encryptedAESKey, iv, privateKey) ==
    LET rsaResult == decryptWithRSA(encryptedAESKey, privateKey)
    IN  IF rsaResult.threw
        THEN [threw |-> TRUE]
        ELSE decryptWithAES(encryptedData, rsaResult.decryptedAESKey, iv)

\* buffer.toString('base64') and Buffer.from(text, 'base64')
toBase64(buffer) == [base64 |-> buffer]
fromBase64(text) == text.base64

\* encryptUserData over code units and bytes, with the key and the IV the
\* call generates: throws on an empty plaintext or a missing key, otherwise
\* the three artifacts in base64
encryptUserDataBase64(plaintext, publicKey, aesKey, iv) ==
    LET result == hybridEncrypt(plaintext, publicKey, aesKey, iv)
    IN  IF plaintext = <<>> \/ publicKey = NoKey \/ result.threw
        THEN [threw |-> TRUE]
        ELSE [threw |-> FALSE,
              encryptedData |-> toBase64(result.encryptedData),
              encryptedKey  |-> toBase64(result.encryptedAESKey),
              iv            |-> toBase64(result.iv)]

\* decryptUserData over the base64 artifacts: the plaintext hybridDecrypt
\* returns, or a throw
decryptUserDataBase64(encryptedData, encryptedKey, iv, privateKey) ==
    LET result == hybridDecrypt(fromBase64(encryptedData), fromBase64(encryptedKey),
                                fromBase64(iv), privateKey)
    IN  IF privateKey = NoKey \/ result.threw
        THEN [threw |-> TRUE]
        ELSE [threw |-> FALSE, plaintext |-> result.decryptedText]

\* The result of no decryption
NotOpened == [opened |-> FALSE]

\* A call of encryptUserData(plaintext, publicKey): the key and the IV are
\* drawn only when the validation of the plaintext has passed
EncryptUserData(plaintext, publicKey) ==
    /\ Len(envelopes) < MaxEnvelopes
    /\ LET aesKey == generateAESKey(randomDrawn)
           iv     == generateIV(randomDrawn + 1)
           out    == encryptUserDataBase64(plaintext, publicKey, aesKey, iv)
       IN  /\ envelopes' = Append(envelopes, [plaintext |-> plaintext, publicKey |-> publicKey,
                                              out |-> out, back |-> NotOpened])
           /\ randomDrawn' = IF plaintext = <<>> THEN randomDrawn ELSE randomDrawn + 2
    /\ UNCHANGED <<hs, now, users, storeVars, otpVars>>

\* A call of decryptUserData on the artifacts of an earlier encryptUserData
DecryptUserData(i, privateKey) ==
    /\ i \in DOMAIN envelopes
    /\ ~envelopes[i].out.threw
    /\ LET out == envelopes[i].out
       IN  envelopes' = [envelopes EXCEPT ![i].back =
               [opened |-> TRUE, privateKey |-> privateKey,
                result |-> decryptUserDataBase64(out.encryptedData, out.encryptedKey, out.iv, privateKey)]]
    /\ UNCHANGED <<randomDrawn, hs, now, users, storeVars, otpVars>>

\* ---------------------------------------------------------------- specifications
\* Spec: two handlers whose statements interleave; the citizen's app submits,
\* one officer's dashboard updates and resolves.
StaffTokens == AdminLoginToken("police.admin", "police123")

Next ==
    \/ \E h \in Handlers, tok \in CitizenTokens, p \in Phones, m \in MessagesIn :
           PostSosRequest(h, tok, p, m, TRUE, FALSE, FALSE)
    \/ \E h \in Handlers : SubmitWrite(h, FALSE)
    \/ \E h \in Handlers : SubmitRead(h)
    \/ \E h \in Handlers, tok \in StaffTokens, p \in Phones : PutStatus(h, tok, p, "responding")
    \/ \E h \in Handlers, tok \in StaffTokens, p \in Phones, n \in NotesIn : PostResolve(h, tok, p, n, FALSE)
    \/ \E h \in Handlers : ResolveRead(h)
    \/ \E h \in Handlers : ResolveInsert(h)
    \/ \E h \in Handlers : ResolveDelete(h)

Spec == Init /\ [][Next]_vars

\* SpecSeq: one handler, so every request runs to its answer undisturbed,
\* while the clock advances between statements.
NextSeq ==
    \/ \E p \in Phones, dbFail \in BOOLEAN : PostSosRequest("h1", NoToken, p, "help", TRUE, dbFail, FALSE)
    \/ SubmitWrite("h1", TRUE)
    \/ SubmitRead("h1")
    \/ \E tok \in StaffTokens, p \in Phones, st \in StatusesIn : PutStatus("h1", tok, p, st)
    \/ \E tok \in StaffTokens, p \in Phones, n \in NotesIn : PostResolve("h1", tok, p, n, TRUE)
    \/ ResolveRead("h1")
    \/ ResolveInsert("h1")
    \/ ResolveDelete("h1")
    \/ Tick

SpecSeq == Init /\ [][NextSeq]_vars

\* SpecStore: one handler writing all three tables; key lookups and
\* encryptions may throw.
NextStore ==
    \/ \E p \in Phones, m \in MessagesIn, dbFail \in BOOLEAN, libFail \in BOOLEAN :
           PostSosRequest("h1", NoToken, p, m, TRUE, dbFail, libFail)
    \/ SubmitWrite("h1", FALSE)
    \/ SubmitRead("h1")
    \/ \E tok \in StaffTokens, p \in Phones : PutStatus("h1", tok, p, "responding")
    \/ \E tok \in StaffTokens, p \in Phones, n \in NotesIn : PostResolve("h1", tok, p, n, FALSE)
    \/ ResolveRead("h1")
    \/ ResolveInsert("h1")
    \/ ResolveDelete("h1")
    \/ \E u \in UserIds, d \in DescriptionsIn, libFail \in BOOLEAN :
           PostComplaint("h1", NoToken, u, d, libFail)
    \/ \E tok \in StaffTokens, id \in 1..MaxComplaints, n \in NotesIn : ResolveComplaint("h1", tok, id, n)

SpecStore == Init /\ [][NextStore]_vars

\* SpecComplaints: complaints are filed and resolved through the routes, and
\* the complaint service is called directly with any status and officer.
NextComplaints ==
    \/ \E u \in UserIds, d \in DescriptionsIn, libFail \in BOOLEAN :
           PostComplaint("h1", NoToken, u, d, libFail)
    \/ \E tok \in PoliceTokens, id \in 1..MaxComplaints, n \in NotesIn \cup {""} :
           ResolveComplaint("h1", tok, id, n)
    \/ \E tok \in PoliceTokens : GetComplaints("h1", tok)
    \/ \E id \in 1..MaxComplaints, st \in ComplaintStatusesIn, o \in OfficerIds, n \in NotesIn \cup {""} :
           UpdateComplaintStatus(id, st, o, n)
    \/ \E id \in 1..MaxComplaints, o \in OfficerIds : AssignComplaintToOfficer(id, o)

SpecComplaints == Init /\ [][NextComplaints]_vars

\* SpecAuth: one handler, every credential on every route.
NextAuth ==
    \/ \E tok \in Credentials, loc \in BOOLEAN :
           PostSosRequest("h1", tok, "+1234567890", "help", loc, FALSE, FALSE)
    \/ SubmitWrite("h1", FALSE)
    \/ SubmitRead("h1")
    \/ \E tok \in Credentials : PutStatus("h1", tok, "+1234567890", "responding")
    \/ \E tok \in Credentials, n \in NotesIn : PostResolve("h1", tok, "+1234567890", n, FALSE)
    \/ ResolveRead("h1")
    \/ ResolveInsert("h1")
    \/ ResolveDelete("h1")
    \/ \E tok \in Credentials : GetEmergencySOS("h1", tok)
    \/ \E tok \in Credentials : GetDebugEmergencySOS("h1", tok)
    \/ \E tok \in Credentials : PostComplaint("h1", tok, 1, "stolen bike", FALSE)
    \/ \E tok \in Credentials, id \in 1..MaxComplaints, n \in NotesIn : ResolveComplaint("h1", tok, id, n)
    \/ \E tok \in Credentials : GetComplaints("h1", tok)

SpecAuth == Init /\ [][NextAuth]_vars

\* SpecOtp: two handlers generating and validating codes of one phone, their
\* statements interleaved; the clock can jump by the lifetime of a code.
NextOtp ==
    \/ \E h \in Handlers : PostGenerateOtp(h, "+9876543210")
    \/ \E h \in Handlers : GenerateRead(h)
    \/ \E h \in Handlers : GenerateCheck(h, "111111")
    \/ \E h \in Handlers : GenerateDelete(h)
    \/ \E h \in Handlers : GenerateInsert(h)
    \/ \E h \in Handlers, c \in OtpCodes : PostLogin(h, "+9876543210", c)
    \/ \E h \in Handlers : LoginRead(h)
    \/ \E h \in Handlers : LoginCheck(h)
    \/ \E h \in Handlers : LoginExpired(h)
    \/ \E h \in Handlers : LoginExceeded(h)
    \/ \E h \in Handlers : LoginIncrement(h)
    \/ \E h \in Handlers : LoginDelete(h)
    \/ Elapse(OTP_EXPIRY_MINUTES)

SpecOtp == Init /\ [][NextOtp]_vars

\* SpecOtpSeq: one handler, so each request runs to its answer undisturbed
\* by other requests, while the clock advances between its statements.
NextOtpSeq ==
    \/ \E p \in OtpPhonesIn : PostGenerateOtp("h1", p)
    \/ GenerateRead("h1")
    \/ \E c \in OtpCodes : GenerateCheck("h1", c)
    \/ GenerateDelete("h1")
    \/ GenerateInsert("h1")
    \/ \E p \in OtpPhonesIn \cup {"+5550000000"}, c \in OtpIn : PostLogin("h1", p, c)
    \/ LoginRead("h1")
    \/ LoginCheck("h1")
    \/ LoginExpired("h1")
    \/ LoginExceeded("h1")
    \/ LoginIncrement("h1")
    \/ LoginDelete("h1")
    \/ \E d \in ElapseIn : Elapse(d)

SpecOtpSeq == Init /\ [][NextOtpSeq]_vars

\* SpecLogin: one handler; the phone number +5550000000 is registered through
\* POST /register, so that its identity starts unverified, and then asks for
\* codes and logs in while the clock advances.
NextLogin ==
    \/ PostRegister("h1", "Asha", "+5550000000")
    \/ RegisterRead("h1")
    \/ RegisterInsert("h1")
    \/ PostGenerateOtp("h1", "+5550000000")
    \/ GenerateRead("h1")
    \/ \E c \in OtpCodes : GenerateCheck("h1", c)
    \/ GenerateDelete("h1")
    \/ GenerateInsert("h1")
    \/ \E c \in OtpIn : PostLogin("h1", "+5550000000", c)
    \/ LoginRead("h1")
    \/ LoginCheck("h1")
    \/ LoginExpired("h1")
    \/ LoginExceeded("h1")
    \/ LoginIncrement("h1")
    \/ LoginDelete("h1")
    \/ \E d \in ElapseIn : Elapse(d)

SpecLogin == Init /\ [][NextLogin]_vars

\* SpecFaults: one handler submitting and resolving incidents; the DELETE of
\* a resolve may throw.
NextFaults ==
    \/ \E p \in Phones, m \in MessagesIn : PostSosRequest("h1", NoToken, p, m, TRUE, FALSE, FALSE)
    \/ SubmitWrite("h1", FALSE)
    \/ SubmitRead("h1")
    \/ \E tok \in StaffTokens, p \in Phones, n \in NotesIn : PostResolve("h1", tok, p, n, FALSE)
    \/ ResolveRead("h1")
    \/ ResolveInsert("h1")
    \/ ResolveDelete("h1")
    \/ ResolveDeleteThrows("h1")

SpecFaults == Init /\ [][NextFaults]_vars

\* SpecCrypto: calls of encryptUserData and decryptUserData on texts and key
\* pairs.
NextCrypto ==
    \/ \E M \in TextsIn, k \in KeyPairsIn : EncryptUserData(M, k)
    \/ \E i \in 1..MaxEnvelopes, k \in KeyPairsIn : DecryptUserData(i, k)

SpecCrypto == Init /\ [][NextCrypto]_vars

\* SpecRegister: two handlers registering identities, their statements
\* interleaved.
NextRegister ==
    \/ \E h \in Handlers, n \in NamesIn, p \in RegisterPhonesIn : PostRegister(h, n, p)
    \/ \E h \in Handlers : RegisterRead(h)
    \/ \E h \in Handlers : RegisterInsert(h)

SpecRegister == Init /\ [][NextRegister]_vars

\* ---------------------------------------------------------------- claims
\* C1: while a resolve is between its read and its answer, a reader of the
\* two tables sees exactly one of the active row it read and the history row
\* it archived: never both, never neither.
C1_ResolveAtomic ==
    \A h \in Handlers :
        hs[h].pc \in {"r_insert", "r_delete"} =>
            (hs[h].currentSOS \subseteq emergency_sos) # (hs[h].historyId # 0)

\* C2: once no resolve is in progress, the history holds exactly as many rows
\* as resolve has removed from the active table.
C2_OneHistoryRowPerResolved ==
    ResolvesInFlight = {} => Len(emergency_sos_history) = removed

\* C4: the active table never holds two rows of one identity, and the row a
\* submit has just written is the only row of its identity and carries that
\* submit's payload, so the later of two submits wins.
AtMostOneActive ==
    \A u \in Phones : Cardinality(getEmergencySOSByUsername(emergency_sos, u)) <= 1

LastWriterWins ==
    \A h \in Handlers :
        (hs[h].pc = "s_write" /\ hs'[h].pc = "s_read") =>
            getEmergencySOSByUsername(emergency_sos', hs[h].username) = { SosRow(hs[h], now) }

C4_SingleActive == []AtMostOneActive /\ [][LastWriterWins]_vars

\* C4 witness: both handlers have written for the same identity with
\* different messages, and the table holds the one row of the later write.
C4_Witness ==
    /\ hs["h1"].pc = "s_read" /\ hs["h2"].pc = "s_read"
    /\ hs["h1"].username = hs["h2"].username
    /\ hs["h1"].message # hs["h2"].message
    /\ emergency_sos = { SosRow(hs["h2"], now) }

\* C3: run alone, a resolve of an identity that has an active row answers
\* 200, leaves no active row of that identity and every other active row as
\* it was, and appends to the history, whose earlier rows are as they were,
\* one row with status 'resolved', the resolver and notes of the request and
\* the created_at of the removed row.
ResolveRoute == "POST /admin/emergency-sos/:username/resolve"

C3_ResolveSequential ==
    \A h \in Handlers :
        LET r   == hs[h]
            b   == r.before
            was == getEmergencySOSByUsername(b.emergency_sos, r.username)
            n   == Len(b.emergency_sos_history)
        IN  (r.pc = "done" /\ r.route = ResolveRoute /\ b.taken /\ was # {}) =>
                /\ r.status = 200
                /\ getEmergencySOSByUsername(emergency_sos, r.username) = {}
                /\ emergency_sos = b.emergency_sos \ was
                /\ Len(emergency_sos_history) = n + 1
                /\ SubSeq(emergency_sos_history, 1, n) = b.emergency_sos_history
                /\ LET new == emergency_sos_history[n + 1]
                   IN  /\ new.username = r.username
                       /\ new.status = "resolved"
                       /\ new.resolved_by = r.resolvedBy
                       /\ new.resolved_notes = r.resolvedNotes
                       /\ \A a \in was : new.sos_created_at = a.created_at /\ new.message = a.message

\* C3 witness: a resolve has answered 200 with another identity's row still
\* active, an earlier history row in place, and an archived creation time
\* that is older than the clock.
C3_Witness ==
    /\ hs["h1"].pc = "done" /\ hs["h1"].route = ResolveRoute /\ hs["h1"].status = 200
    /\ hs["h1"].before.taken
    /\ emergency_sos # {}
    /\ Len(emergency_sos_history) = 2
    /\ emergency_sos_history[2].sos_created_at < now
    /\ emergency_sos_history[2].resolved_by = "Police Administrator"

\* C5: a request is admitted to an incident route (it passes the route's
\* checks, or is answered 200) only with a token that jwt.verify accepts.
IncidentRoutes ==
    { "POST /admin/sos-requests", "GET /admin/emergency-sos", "GET /debug/emergency-sos",
      "PUT /admin/emergency-sos/:username/status", ResolveRoute }

Admitted(h) == hs[h].pc \notin {"idle", "done"} \/ (hs[h].pc = "done" /\ hs[h].status \notin {400, 401, 403})

C5_TokenGate ==
    \A h \in Handlers : (hs[h].route \in IncidentRoutes /\ Admitted(h)) => ValidToken(hs[h].tok)

\* C6 as claimed: a request is admitted to a role-gated route only with a
\* valid token whose role claim is 'admin'.
RoleGatedRoutes ==
    { "GET /admin/emergency-sos", "PUT /admin/emergency-sos/:username/status", ResolveRoute,
      "GET /admin/complaints", "POST /admin/complaints/:id/resolve" }

C6_RoleAdminOnly ==
    \A h \in Handlers :
        (hs[h].route \in RoleGatedRoutes /\ Admitted(h)) => (ValidToken(hs[h].tok) /\ hs[h].tok.role = "admin")

\* C6 as amended: a request to a gated /admin route that does not carry a
\* valid token whose type claim is 'admin' is answered at once, 403 when the
\* token is valid and 401 otherwise, with no rows and no table changed.
C6_TypeAdminOnly ==
    [][\A h \in Handlers :
          (hs'[h] # hs[h] /\ hs'[h].route \in RoleGatedRoutes
              /\ ~(ValidToken(hs'[h].tok) /\ hs'[h].tok.type = "admin")) =>
                  /\ hs'[h].pc = "done"
                  /\ hs'[h].status = IF ValidToken(hs'[h].tok) THEN 403 ELSE 401
                  /\ hs'[h].body = {}
                  /\ UNCHANGED <<emergency_sos, emergency_sos_history, complaints>>]_vars

\* C6 witness: a citizen token has been refused on the status route while an
\* incident was active, and an officer-role token has been admitted before
\* (its resolve is archived).
C6_Witness ==
    /\ hs["h1"].pc = "done" /\ hs["h1"].status = 403
    /\ hs["h1"].route = "PUT /admin/emergency-sos/:username/status"
    /\ hs["h1"].tok \in CitizenTokens
    /\ emergency_sos # {}
    /\ \E i \in DOMAIN emergency_sos_history : emergency_sos_history[i].resolved_by = "Officer John Smith"

\* C7: a stored incident or complaint that has a ciphertext does not also
\* hold the text the ciphertext was made from.
C7_NoPlaintextBesideCiphertext ==
    /\ \A r \in emergency_sos :
          r.encrypted_message # NULL => r.message # PlaintextOf(r.encrypted_message)
    /\ \A i \in DOMAIN complaints :
          complaints[i].encrypted_description # NULL =>
              complaints[i].description # PlaintextOf(complaints[i].encrypted_description)

\* C8: a submit whose key lookup found nothing or threw, or whose encryption
\* threw, is not answered with an error: its write stores the row with the
\* plaintext message and a null triple, and its answer is 200 with the row
\* the table then holds for the identity.
NullTriple(r) ==
    r.encrypted_message = NULL /\ r.message_encrypted_key = NULL /\ r.message_encryption_iv = NULL

C8_SubmitSoftFail ==
    [][\A h \in Handlers :
          /\ (Free(h) /\ hs'[h] # hs[h] /\ hs'[h].route = "POST /admin/sos-requests") =>
                 (hs'[h].pc = "s_write" \/ hs'[h].status = 400)
          /\ (hs[h].pc = "s_write" /\ hs[h].crypto # "encrypted" /\ hs'[h] # hs[h]) =>
                 /\ hs'[h].pc = "s_read"
                 /\ \E r \in emergency_sos' :
                       /\ r.username = hs[h].username
                       /\ r.message = hs[h].message /\ r.message # ""
                       /\ NullTriple(r)
          /\ (hs[h].pc = "s_read" /\ hs[h].crypto # "encrypted" /\ hs'[h] # hs[h]) =>
                 /\ hs'[h].pc = "done" /\ hs'[h].status = 200
                 /\ hs'[h].body = getEmergencySOSByUsername(emergency_sos, hs[h].username)]_vars

\* C8 witness: the encryption threw, and the row is stored in plaintext with
\* a null triple.
C8_Witness ==
    /\ hs["h1"].pc = "s_read" /\ hs["h1"].crypto = "encrypt_threw"
    /\ \E r \in emergency_sos : r.username = hs["h1"].username /\ r.message = "help" /\ NullTriple(r)

\* C9: a complaint whose description could not be encrypted is still stored,
\* in plaintext, and the request is answered 200.
C9_ComplaintSoftFail ==
    \A h \in Handlers :
        (hs[h].pc = "done" /\ hs[h].route = "POST /admin/complaints" /\ hs[h].crypto = "encrypt_threw") =>
            (hs[h].status = 200 /\ complaints # <<>>)

\* C10: every row of the three tables has its ciphertext, wrapped key and IV
\* all null or all non-null.
AllOrNothing(a, b, c) == (a = NULL /\ b = NULL /\ c = NULL) \/ (a # NULL /\ b # NULL /\ c # NULL)

C10_EnvelopeAllOrNothing ==
    /\ \A r \in emergency_sos :
          AllOrNothing(r.encrypted_message, r.message_encrypted_key, r.message_encryption_iv)
    /\ \A i \in DOMAIN emergency_sos_history :
          LET r == emergency_sos_history[i]
          IN  AllOrNothing(r.encrypted_message, r.message_encrypted_key, r.message_encryption_iv)
    /\ \A i \in DOMAIN complaints :
          LET r == complaints[i]
          IN  AllOrNothing(r.encrypted_description, r.encrypted_key, r.encryption_iv)

\* C10 witness: an encrypted and a plaintext incident are active, an incident
\* is archived and an encrypted complaint is stored.
C10_Witness ==
    /\ \E r \in emergency_sos : r.encrypted_message # NULL
    /\ \E r \in emergency_sos : r.encrypted_message = NULL
    /\ emergency_sos_history # <<>>
    /\ \E i \in DOMAIN complaints : complaints[i].encrypted_description # NULL
\* C11: every record an authorized listing of incidents or complaints returns
\* that has a complete stored envelope and an existing owner is marked as
\* decrypted and carries the text its envelope decrypts to.
C11_ListingDecrypts ==
    \A h \in Handlers :
        /\ (hs[h].pc = "done" /\ hs[h].route = "GET /admin/emergency-sos" /\ hs[h].status = 200) =>
               \A rec \in hs[h].body :
                   (rec.encrypted_message # NULL /\ rec.message_encrypted_key # NULL
                        /\ rec.message_encryption_iv # NULL /\ getUserByPhone(rec.userPhone) # {}) =>
                       (rec.isDecrypted /\ rec.message = PlaintextOf(rec.encrypted_message))
        /\ (hs[h].pc = "done" /\ hs[h].route = "GET /admin/complaints" /\ hs[h].status = 200) =>
               \A rec \in hs[h].body :
                   (rec.encrypted_description # NULL /\ rec.encrypted_key # NULL
                        /\ rec.encryption_iv # NULL /\ getUserById(rec.userId) # {}) =>
                       (rec.isDecrypted /\ rec.description = PlaintextOf(rec.encrypted_description))

\* C12: the correct code of one OTP record is accepted at most once: no
\* record has more than one token issued on it.
C12_OtpSingleUse ==
    \A i \in 1..MaxOtps : issued[i] <= 1

\* C13: once three candidates have been found unequal to a record, a
\* validation that reaches its checks while the record is live is turned to
\* the attempts-exceeded branch whatever code it carries, and that branch
\* answers 429, issues no token and leaves no record of the phone.
C13_AttemptsExhausted ==
    [][\A h \in Handlers :
          /\ (hs[h].pc = "l_check" /\ hs'[h].pc # "l_check") =>
                 LET r == CHOOSE x \in hs[h].storedOTP : TRUE
                 IN  (r.expires_at > now /\ mismatched[r.id] >= MAX_OTP_ATTEMPTS) =>
                         hs'[h].pc = "l_exceeded"
          /\ (hs[h].pc = "l_exceeded" /\ hs'[h].pc # "l_exceeded") =>
                 /\ hs'[h].pc = "done" /\ hs'[h].status = 429
                 /\ hs'[h].body.message = "Maximum OTP attempts exceeded"
                 /\ issued' = issued
                 /\ deleteOTP(otp_storage', hs[h].phoneNumber) = otp_storage']_vars

\* C13 witness: the fourth validation carried the correct code, was answered
\* 429, and the record is gone with no token issued on it.
C13_Witness ==
    /\ hs["h1"].pc = "done" /\ hs["h1"].route = "POST /login" /\ hs["h1"].status = 429
    /\ \E r \in hs["h1"].storedOTP :
          /\ r.otp = hs["h1"].otp
          /\ mismatched[r.id] = MAX_OTP_ATTEMPTS
          /\ issued[r.id] = 0
    /\ otp_storage = {}

\* C14: no OTP record has more than MAX_OTP_ATTEMPTS candidates found unequal
\* to it.
C14_GuessBound ==
    \A i \in 1..MaxOtps : mismatched[i] <= MAX_OTP_ATTEMPTS

\* C15: the OTP store never holds two unexpired records of one phone number.
C15_OneLiveOtp ==
    \A p \in OtpPhonesIn :
        Cardinality({ r \in otp_storage : r.phone_number = p /\ r.expires_at > now }) <= 1

\* C16: a generate request that reaches its check while the phone has an
\* unexpired record is answered 429; every 429 of generate carries a
\* remaining time above zero and leaves the OTP store as it was.
C16_RateLimit ==
    [][\A h \in Handlers :
          (hs[h].pc = "g_check" /\ hs'[h].pc # "g_check") =>
              /\ (\E r \in otp_storage : r.phone_number = hs[h].phoneNumber /\ r.expires_at > now) =>
                     (hs'[h].pc = "done" /\ hs'[h].status = 429)
              /\ (hs'[h].pc = "done" /\ hs'[h].status = 429) =>
                     (hs'[h].body.remainingTime > 0 /\ otp_storage' = otp_storage)]_vars

\* C16 witness: a generate was answered 429 some minutes into the life of the
\* record, which is still stored with its code, expiry and counter.
C16_Witness ==
    /\ hs["h1"].pc = "done" /\ hs["h1"].route = "POST /generate-otp" /\ hs["h1"].status = 429
    /\ hs["h1"].body.remainingTime < OTP_EXPIRY_MINUTES
    /\ \E r \in otp_storage : r \in hs["h1"].storedOTP /\ r.attempts > 0

\* C17: a validation is answered 'No OTP found' only when the store holds no
\* record of the phone: an expired record is deleted and answered as expired.
C17_ExpiredDeleted ==
    \A h \in Handlers :
        (hs[h].pc = "done" /\ hs[h].route = "POST /login" /\ hs[h].body.message = "No OTP found") =>
            deleteOTP(otp_storage, hs[h].phoneNumber) = otp_storage

\* C18: the answer to a mismatched validation reports MAX_OTP_ATTEMPTS minus
\* the attempt counter its own increment has stored.
C18_RemainingAttempts ==
    [][\A h \in Handlers :
          (hs[h].pc = "l_increment" /\ hs'[h].pc = "done") =>
              \A r \in otp_storage' :
                  r.phone_number = hs[h].phoneNumber =>
                      hs'[h].body.remainingAttempts = MAX_OTP_ATTEMPTS - r.attempts]_vars

\* C19: a resolve request that passes the token gate is never answered with
\* an authentication or authorization failure: when the identity has no
\* active incident the answer is a not-found outcome.
C19_ResolveNotFound ==
    \A h \in Handlers :
        (hs[h].pc = "done" /\ hs[h].route = ResolveRoute /\ AdminGate(hs[h].tok) = 200) =>
            hs[h].status \notin {401, 403}

\* C20: no row of the active incident table has status 'resolved'.
C20_ResolvedOnlyByResolve ==
    \A r \in emergency_sos : r.status # "resolved"

\* C21: the status of a complaint never leaves resolved or rejected and
\* never moves backwards along pending, assigned, in_progress, then
\* resolved or rejected.
ComplaintRank(status) ==
    IF status = "pending" THEN 1
    ELSE IF status = "assigned" THEN 2
    ELSE IF status = "in_progress" THEN 3
    ELSE 4

C21_ComplaintLifecycle ==
    [][\A i \in DOMAIN complaints :
          /\ ComplaintRank(complaints'[i].status) >= ComplaintRank(complaints[i].status)
          /\ complaints[i].status \in {"resolved", "rejected"} =>
                 complaints'[i].status = complaints[i].status]_vars

\* The users table holds at most one identity of each phone number
OnePerPhone(table) ==
    \A u, v \in table : u.phone_number = v.phone_number => u = v

\* C22: the users table never holds two identities of one phone number, and
\* a register request that ends while its phone number is registered is
\* answered 409 and leaves the users table as it was.
C22_IdentityUniqueness ==
    [][/\ OnePerPhone(users')
       /\ \A h \in Handlers :
             (/\ hs[h].pc \in {"reg_read", "reg_insert"}
              /\ hs'[h].pc = "done"
              /\ getUserByPhone(hs[h].phoneNumber) # {}) =>
                 (hs'[h].status = 409 /\ users' = users)]_vars

\* The phone numbers of the verified identities
Verified(table) == { u.phone_number : u \in { x \in table : x.is_verified } }

\* C23: a login reads only a live record of its phone number; it goes on to
\* issue a token only when that record carries the code of the request, is
\* unexpired and below the attempt limit, and the phone number is registered;
\* a token is answered, counted or an identity marked verified only by that
\* step, for the identity of that phone number; every other answer of a login
\* carries no token and leaves the users table as it was.
C23_TokenOnlyByMatchedLogin ==
    [][/\ (issued' # issued \/ Verified(users') # Verified(users)) =>
              \E h \in Handlers :
                  /\ hs[h].pc = "l_delete" /\ hs[h].route = "POST /login"
                  /\ Verified(users') = Verified(users) \cup {hs[h].phoneNumber}
       /\ \A h \in Handlers :
          LET answered == hs'[h] # hs[h] /\ hs'[h].pc = "done"
              issues   == hs[h].pc = "l_delete" /\ hs[h].route = "POST /login"
          IN  /\ (hs[h].pc = "l_read" /\ hs'[h].pc = "l_check") =>
                     hs'[h].storedOTP \subseteq getOTP(otp_storage, hs[h].phoneNumber, now)
              /\ (hs[h].pc # "l_delete" /\ hs'[h].pc = "l_delete") =>
                     /\ getUserByPhone(hs[h].phoneNumber) # {}
                     /\ \E r \in hs[h].storedOTP :
                           /\ r.phone_number = hs[h].phoneNumber
                           /\ r.otp = hs[h].otp
                           /\ r.expires_at > now
                           /\ r.attempts < MAX_OTP_ATTEMPTS
              /\ (answered /\ "token" \in DOMAIN hs'[h].body) =>
                     /\ issues
                     /\ \E u \in getUserByPhone(hs[h].phoneNumber) : hs'[h].body.token = CitizenToken(u)
              /\ (answered /\ hs'[h].route = "POST /login" /\ hs'[h].status # 200) =>
                     /\ "token" \notin DOMAIN hs'[h].body
                     /\ users' = users
                     /\ issued' = issued]_vars

\* C23 witness: the identity registered for +5550000000 has met a mismatch
\* (which left it unverified) and then logged in with the code of the record:
\* it holds a token and is marked verified.
C23_Witness ==
    /\ hs["h1"].pc = "done" /\ hs["h1"].route = "POST /login" /\ hs["h1"].status = 200
    /\ \E u \in getUserByPhone("+5550000000") :
          /\ u.is_verified
          /\ hs["h1"].body.token = CitizenToken(u)
    /\ \E r \in hs["h1"].storedOTP : mismatched[r.id] >= 1 /\ issued[r.id] = 1

\* The envelopes that were opened with the private key of the pair whose
\* public key made them
OpenedByOwner ==
    { i \in DOMAIN envelopes :
          /\ envelopes[i].plaintext # <<>>
          /\ envelopes[i].back.opened
          /\ envelopes[i].back.privateKey.pair = envelopes[i].publicKey.pair }

\* A text in which every surrogate is half of a pair
RECURSIVE WellFormed(_)
WellFormed(text) ==
    IF text = <<>> THEN TRUE
    ELSE IF Len(text) >= 2 /\ isHighSurrogate(text[1]) /\ isLowSurrogate(text[2])
    THEN WellFormed(SubSeq(text, 3, Len(text)))
    ELSE ~isHighSurrogate(text[1]) /\ ~isLowSurrogate(text[1]) /\ WellFormed(Tail(text))

\* C24 as stated: decryptUserData with the private key, applied to what
\* encryptUserData returned for a non-empty text and the public key of the
\* same pair, returns exactly that text.
C24_RoundTripAnyText ==
    \A i \in OpenedByOwner :
        /\ ~envelopes[i].out.threw
        /\ ~envelopes[i].back.result.threw
        /\ envelopes[i].back.result.plaintext = envelopes[i].plaintext

\* C24 amended: the round trip returns exactly the text when the text is
\* non-empty and well-formed UTF-16 (no surrogate without its partner).
C24_RoundTrip ==
    \A i \in OpenedByOwner :
        WellFormed(envelopes[i].plaintext) =>
            /\ ~envelopes[i].out.threw
            /\ ~envelopes[i].back.result.threw
            /\ envelopes[i].back.result.plaintext = envelopes[i].plaintext

\* C24 witness: a text of a three-byte character and a one-byte character has
\* come back from the round trip.
C24_Witness ==
    \E i \in OpenedByOwner :
        /\ envelopes[i].plaintext = <<8364, 65>>
        /\ ~envelopes[i].back.result.threw
        /\ envelopes[i].back.result.plaintext = <<8364, 65>>

\* The calls of encryptUserData that returned an envelope
Encrypted == { i \in DOMAIN envelopes : ~envelopes[i].out.threw }

\* C25: no two calls of encryptUserData have used the same AES key or the
\* same IV.
C25_FreshKeyMaterial ==
    \A i, j \in Encrypted :
        i # j =>
            /\ fromBase64(envelopes[i].out.encryptedKey).key # fromBase64(envelopes[j].out.encryptedKey).key
            /\ fromBase64(envelopes[i].out.iv) # fromBase64(envelopes[j].out.iv)
            /\ fromBase64(envelopes[i].out.encryptedData).key # fromBase64(envelopes[j].out.encryptedData).key
            /\ fromBase64(envelopes[i].out.encryptedData).iv # fromBase64(envelopes[j].out.encryptedData).iv

\* C25 witness: two calls with the same plaintext and the same public key
\* have returned different ciphertexts and different IVs.
C25_Witness ==
    \E i, j \in Encrypted :
        /\ i # j
        /\ envelopes[i].plaintext = envelopes[j].plaintext
        /\ envelopes[i].publicKey = envelopes[j].publicKey
        /\ envelopes[i].out.encryptedData # envelopes[j].out.encryptedData
        /\ envelopes[i].out.iv # envelopes[j].out.iv

\* C26: when a resolve has failed after its history insert, the incident it
\* read is in exactly one of the two tables: not both in the active table and
\* in the history, and not in neither.
C26_NoPartialResolve ==
    \A h \in Handlers :
        (/\ hs[h].pc = "done" /\ hs[h].route = ResolveRoute
         /\ hs[h].status = 401 /\ hs[h].historyId # 0) =>
            (hs[h].currentSOS \subseteq emergency_sos)
                # (\E i \in DOMAIN emergency_sos_history : emergency_sos_history[i].id = hs[h].historyId)

\* C27: no two identities of the users table hold the same private key.
C27_OwnKeyPair ==
    \A u, v \in users : u # v => u.private_key # v.private_key

\* C28: an alert that leaves the active table without a later submit of its
\* identity taking its place is in a history row: the same identity, message
\* and creation time.
C28_NoAlertLost ==
    [][\A r \in emergency_sos \ emergency_sos' :
          getEmergencySOSByUsername(emergency_sos', r.username) = {} =>
              \E i \in DOMAIN emergency_sos_history' :
                  /\ emergency_sos_history'[i].username = r.username
                  /\ emergency_sos_history'[i].message = r.message
                  /\ emergency_sos_history'[i].sos_created_at = r.created_at]_vars

\* C29: a submit of an identity that has an active row leaves exactly one row
\* of the identity, with status 'active', the creation time of this submit and
\* the payload of this submit; and the history row a resolve inserts carries
\* the creation time of the row the active table holds.
C29_SubmitReplacesRow ==
    [][\A h \in Handlers :
          /\ (/\ hs[h].pc = "s_write" /\ hs'[h].pc = "s_read"
              /\ getEmergencySOSByUsername(emergency_sos, hs[h].username) # {}) =>
                 /\ Cardinality(getEmergencySOSByUsername(emergency_sos', hs[h].username)) = 1
                 /\ \A r \in getEmergencySOSByUsername(emergency_sos', hs[h].username) :
                       /\ r.status = "active"
                       /\ r.created_at = now
                       /\ r.message = hs[h].message
                       /\ r.encrypted_message = hs[h].encryptedMessage
                       /\ r.message_encrypted_key = hs[h].messageEncryptedKey
                       /\ r.message_encryption_iv = hs[h].messageEncryptionIv
          /\ (hs[h].pc = "r_insert" /\ hs'[h].pc = "r_delete") =>
                 \A r \in getEmergencySOSByUsername(emergency_sos, hs[h].username) :
                     emergency_sos_history'[Len(emergency_sos_history')].sos_created_at = r.created_at]_vars

\* C29 witness: a submit has replaced a row that was 'responding' and older
\* than the clock; the identity's row is 'active' and created now.
C29_Witness ==
    /\ hs["h1"].pc = "s_read"
    /\ \E old \in hs["h1"].replaced : old.status = "responding" /\ old.created_at < now
    /\ \E r \in getEmergencySOSByUsername(emergency_sos, hs["h1"].username) :
          r.status = "active" /\ r.created_at = now

\* C30: the OTP store holds no record whose attempts are exhausted, and no
\* generate request is rate-limited on account of such a record.
C30_ExhaustedDeleted ==
    /\ \A r \in otp_storage : r.attempts < MAX_OTP_ATTEMPTS
    /\ \A h \in Handlers :
          (hs[h].pc = "done" /\ hs[h].route = "POST /generate-otp" /\ hs[h].status = 429) =>
              \A r \in hs[h].storedOTP : r.attempts < MAX_OTP_ATTEMPTS
====
